---- MODULE Spec2Model ----
(***************************************************************************)
(* Zillow search scraper: the record extractor (zillow_parser.py), the     *)
(* orchestrator (main.py) and the JSON exporter (exporter_json.py).        *)
(*                                                                         *)
(* JSON / Python values are records [t, s]: t is the Python type and s the *)
(* text str() gives for the value, as a sequence of characters.  A dict or *)
(* list whose contents the code never looks into is kept opaque: s says    *)
(* only whether it is empty.  "absent" marks a key a dict does not hold.   *)
(*                                                                         *)
(* Each source file opens with `thonimport <module>`; the line is read as  *)
(* the import statement it carries.                                        *)
(***************************************************************************)
EXTENDS Integers, Sequences, FiniteSets, TLC

\* ------------------------------------------------------------------ bounds
MaxPhotos == 2
MaxListings == 2
MaxQueries == 4
MaxCities == 2
MaxTypes == 2
MaxPages == 2
MaxExport == 2
MaxText == 5

\* ------------------------------------------------------------------ values
Absent == [t |-> "absent", s |-> <<>>]
Null == [t |-> "null", s |-> <<>>]
Str(cs) == [t |-> "str", s |-> cs]
Num(cs) == [t |-> "num", s |-> cs]
PyTrue == [t |-> "bool", s |-> <<"T", "r", "u", "e">>]
PyFalse == [t |-> "bool", s |-> <<"F", "a", "l", "s", "e">>]
EmptyList == [t |-> "list", s |-> <<>>]
SomeList == [t |-> "list", s |-> <<"[", "x", "]">>]
EmptyDict == [t |-> "dict", s |-> <<>>]
Dict == [t |-> "dict", s |-> <<"{", "x", "}">>]
\* an exception raised while a value was being computed; s names it
Exc(name) == [t |-> "exc", s |-> <<name>>]

IsExc(v) == v.t = "exc"
IsNone(v) == v.t \in {"null", "absent"}
IsStr(v) == v.t = "str"
IsDict(v) == v.t = "dict"
IsList(v) == v.t = "list"

\* Python truthiness: bool(v)
Truthy(v) ==
    CASE v.t = "str" -> v.s # <<>>
      [] v.t = "num" -> v.s # <<"0">>
      [] v.t = "bool" -> v = PyTrue
      [] v.t \in {"list", "dict"} -> v.s # <<>>
      [] OTHER -> FALSE

\* dict.get(key): the value, None for a key the dict does not hold
Get(v) == IF v.t = "absent" THEN Null ELSE v

\* Python's  a or b  (b is evaluated only when a is falsy; an exception in a
\* propagates)
PyOr(a, b) == IF IsExc(a) THEN a ELSE IF Truthy(a) THEN a ELSE b

\* obj.get(key) where obj may not be a dict: AttributeError
GetFrom(obj, v) == IF IsDict(obj) THEN Get(v) ELSE Exc("AttributeError")

\* ------------------------------------------------------- raw listing objects
TopKeys ==
    {"zpid", "providerListingId", "statusType", "statusText", "imgSrc",
     "detailUrl", "detailUrlPath", "buildingName", "name",
     "contactPhoneNumber", "unformattedPrice", "price", "priceReduction",
     "unitTypes", "bedsBaths", "beds", "totalUnits", "isFeaturedListing",
     "badgeText", "addressStreet", "addressCity", "addressState",
     "addressZipcode"}
HdpKeys ==
    {"zpid", "providerListingId", "homeStatus", "detailUrl", "latitude",
     "longitude", "buildingName", "price", "totalUnits"}
AddrKeys == {"streetAddress", "city", "state", "zipcode"}
LatLongKeys == {"latitude", "longitude"}

NoList == [v |-> Absent, items |-> <<>>]
ListOf(items) == [v |-> IF items = <<>> THEN EmptyList ELSE SomeList, items |-> items]

\* The raw listing {}: every key absent.  kind is the value itself when the
\* element of listResults is not a dict; latLong, address, variableData,
\* hdpData and homeInfo hold Dict when they are dicts (their keys are in ll,
\* addr, vdText, hdp) and the wrongly typed value otherwise; the three photo
\* sources hold v = SomeList when they are lists (of items).
EmptyRaw ==
    [kind |-> Dict,
     f |-> [k \in TopKeys |-> Absent],
     latLong |-> Absent, ll |-> [k \in LatLongKeys |-> Absent],
     address |-> Absent, addr |-> [k \in AddrKeys |-> Absent],
     variableData |-> Absent, vdText |-> Absent,
     hdpData |-> Absent, homeInfo |-> Absent,
     hdp |-> [k \in HdpKeys |-> Absent],
     photoUrls |-> NoList, hdpPhotoUrls |-> NoList, hdpPhotos |-> NoList]

\* hdp = raw.get("hdpData", {}).get("homeInfo", {})   (lines 198 and 230)
HomeInfoOf(raw) ==
    IF raw.hdpData.t = "absent" THEN EmptyDict
    ELSE IF ~IsDict(raw.hdpData) THEN Exc("AttributeError")
    ELSE IF raw.hdpData # Dict \/ raw.homeInfo.t = "absent" THEN EmptyDict
    ELSE raw.homeInfo

\* hdp.get(k)
HdpGet(raw, k) ==
    LET h == HomeInfoOf(raw)
    IN  IF IsExc(h) THEN h
        ELSE GetFrom(h, IF h = Dict THEN raw.hdp[k] ELSE Absent)

\* raw.get(k)
RawGet(raw, k) == GetFrom(raw.kind, raw.f[k])

\* (raw.get(key) or {}) for the sub-objects latLong, address, variableData
OrEmptyDict(raw, v) ==
    IF ~IsDict(raw.kind) THEN Exc("AttributeError")
    ELSE IF Truthy(Get(v)) THEN v ELSE EmptyDict

\* ------------------------------------------------------------- strings
RECURSIVE Join(_, _)
\* sep.join(parts), parts a sequence of character sequences
Join(parts, sep) ==
    IF parts = <<>> THEN <<>>
    ELSE IF Len(parts) = 1 THEN parts[1]
    ELSE parts[1] \o sep \o Join(Tail(parts), sep)

CommaSpace == <<",", " ">>

\* str(v)
PyStr(v) == IF IsExc(v) THEN v ELSE IF IsNone(v) THEN Str(<<"N", "o", "n", "e">>) ELSE Str(v.s)

\* a Python list value: v tells its truthiness, items its elements
PyList(items) == ListOf(items)
NullList == [v |-> Null, items |-> <<>>]

\* ------------------------------------------------------- _format_address
AddrGet(raw, k) ==
    LET a == OrEmptyDict(raw, raw.address)
    IN  IF IsExc(a) THEN a
        ELSE GetFrom(a, IF a = Dict THEN raw.addr[k] ELSE Absent)

NotNone(v) == ~IsNone(v)
\* a filter on "is not None" in place of truthiness
AddressPartsNotNone(comps) == SelectSeq(comps, NotNone)

\* address_parts = [p for p in [street, city, state, zipcode] if p]
AddressParts(comps) == SelectSeq(comps, Truthy)

\* full_address = ", ".join(address_parts) if address_parts else None
FullAddress(parts) ==
    IF parts = <<>> THEN Null
    ELSE IF \E i \in 1..Len(parts) : ~IsStr(parts[i]) THEN Exc("TypeError")
    ELSE Str(Join([i \in 1..Len(parts) |-> parts[i].s], CommaSpace))

FormatAddress(raw) ==
    LET street == PyOr(AddrGet(raw, "streetAddress"), RawGet(raw, "addressStreet"))
        city == PyOr(AddrGet(raw, "city"), RawGet(raw, "addressCity"))
        state == PyOr(AddrGet(raw, "state"), RawGet(raw, "addressState"))
        zipcode == PyOr(AddrGet(raw, "zipcode"), RawGet(raw, "addressZipcode"))
        comps == <<street, city, state, zipcode>>
        bad == {i \in 1..4 : IsExc(comps[i])}
    IN  IF bad # {}
        THEN [exc |-> comps[CHOOSE i \in bad : \A j \in bad : i <= j].s[1],
              address |-> Null, addressStreet |-> Null, addressCity |-> Null,
              addressState |-> Null, addressZipcode |-> Null]
        ELSE LET full == FullAddress(AddressParts(comps))
             IN  [exc |-> IF IsExc(full) THEN full.s[1] ELSE "none",
                  address |-> IF IsExc(full) THEN Null ELSE full,
                  addressStreet |-> street, addressCity |-> city,
                  addressState |-> state, addressZipcode |-> zipcode]

\* ------------------------------------------------------- _extract_photos
RECURSIVE Unique(_, _)
\* the seen/unique loop of lines 211-218
Unique(photos, seen) ==
    IF photos = <<>> THEN <<>>
    ELSE IF Head(photos) \in seen THEN Unique(Tail(photos), seen)
    ELSE <<Head(photos)>> \o Unique(Tail(photos), seen \cup {Head(photos)})

\* the URLs appended from hdp["photos"]: each p.get("url") that is a string
PhotoObjectUrls(entries) ==
    LET urls == [i \in 1..Len(entries) |->
                    IF entries[i].v = Dict THEN Get(entries[i].url) ELSE Null]
    IN  SelectSeq(urls, IsStr)

\* the list of photos before the top-level imgSrc is inserted (lines 192-205)
MergedPhotos(raw) ==
    LET top == IF IsList(raw.photoUrls.v) THEN SelectSeq(raw.photoUrls.items, IsStr) ELSE <<>>
        h == HomeInfoOf(raw)
        hp == IF h = Dict /\ IsList(raw.hdpPhotoUrls.v)
              THEN SelectSeq(raw.hdpPhotoUrls.items, IsStr) ELSE <<>>
        ho == IF h = Dict /\ IsList(raw.hdpPhotos.v)
              THEN PhotoObjectUrls(raw.hdpPhotos.items) ELSE <<>>
    IN  top \o hp \o ho

\* img_src appended in place of inserted at position 0
InsertImgSrcLast(raw, photos) ==
    IF IsStr(GetFrom(raw.kind, raw.f["imgSrc"])) THEN photos \o <<raw.f["imgSrc"]>> ELSE photos

\* img_src inserted at position 0 when it is a string (lines 207-209)
InsertImgSrc(raw, photos) ==
    LET img == RawGet(raw, "imgSrc")
    IN  IF IsStr(img) THEN <<img>> \o photos ELSE photos

ExtractPhotos(raw) ==
    LET h == HomeInfoOf(raw)
    IN  IF ~IsDict(raw.kind) \/ IsExc(h)
        THEN [exc |-> "AttributeError", list |-> NullList]
        ELSE IF h = Dict /\ IsList(raw.hdpPhotos.v)
                /\ \E i \in 1..Len(raw.hdpPhotos.items) : ~IsDict(raw.hdpPhotos.items[i].v)
        THEN [exc |-> "AttributeError", list |-> NullList]
        ELSE [exc |-> "none",
              list |-> PyList(Unique(InsertImgSrc(raw, MergedPhotos(raw)), {}))]

\* ------------------------------------------- parse_search_results, per record
LatLongGet(raw, k) ==
    LET l == OrEmptyDict(raw, raw.latLong)
    IN  IF IsExc(l) THEN l
        ELSE GetFrom(l, IF l = Dict THEN raw.ll[k] ELSE Absent)

VariableDataText(raw) ==
    LET d == OrEmptyDict(raw, raw.variableData)
    IN  IF IsExc(d) THEN d
        ELSE GetFrom(d, IF d = Dict THEN raw.vdText ELSE Absent)

\* bool(v)
PyBool(v) == IF IsExc(v) THEN v ELSE IF Truthy(v) THEN PyTrue ELSE PyFalse

\* zpid without the final  or ""
ZpidOfNoDefault(raw) ==
    PyStr(IF IsExc(GetFrom(raw.kind, raw.f["zpid"])) \/ Truthy(GetFrom(raw.kind, raw.f["zpid"]))
          THEN GetFrom(raw.kind, raw.f["zpid"])
          ELSE IF raw.hdpData.t = "absent" THEN Null
          ELSE IF raw.hdpData # Dict \/ raw.homeInfo # Dict THEN Exc("AttributeError")
          ELSE Get(raw.hdp["zpid"]))

\* the keyword arguments of PropertyListing(...), lines 235-263
ZpidOf(raw) == PyStr(PyOr(RawGet(raw, "zpid"), PyOr(HdpGet(raw, "zpid"), Str(<<>>))))
ProviderListingIdOf(raw) ==
    PyOr(RawGet(raw, "providerListingId"), HdpGet(raw, "providerListingId"))
StatusTypeOf(raw) == PyOr(RawGet(raw, "statusType"), HdpGet(raw, "homeStatus"))
StatusTextOf(raw) == PyOr(RawGet(raw, "statusText"), RawGet(raw, "statusType"))
ImageSourceOf(raw) == RawGet(raw, "imgSrc")
DetailUrlOf(raw) ==
    PyOr(RawGet(raw, "detailUrl"),
         PyOr(RawGet(raw, "detailUrlPath"), HdpGet(raw, "detailUrl")))
LatitudeOf(raw) == PyOr(LatLongGet(raw, "latitude"), HdpGet(raw, "latitude"))
LongitudeOf(raw) == PyOr(LatLongGet(raw, "longitude"), HdpGet(raw, "longitude"))
BuildingNameOf(raw) ==
    PyOr(RawGet(raw, "buildingName"),
         PyOr(HdpGet(raw, "buildingName"), RawGet(raw, "name")))
ContactPhoneNumberOf(raw) == RawGet(raw, "contactPhoneNumber")
MinPriceOf(raw) ==
    PyOr(RawGet(raw, "unformattedPrice"),
         PyOr(RawGet(raw, "price"), HdpGet(raw, "price")))
MaxPriceOf(raw) ==
    PyOr(RawGet(raw, "priceReduction"),
         PyOr(RawGet(raw, "price"), HdpGet(raw, "price")))
UnitTypesOf(raw) ==
    PyOr(RawGet(raw, "unitTypes"),
         PyOr(RawGet(raw, "bedsBaths"), RawGet(raw, "beds")))
TotalUnitsOf(raw) == PyOr(RawGet(raw, "totalUnits"), HdpGet(raw, "totalUnits"))
IsFeaturedListingOf(raw) == PyBool(RawGet(raw, "isFeaturedListing"))
BadgeTextOf(raw) == PyOr(RawGet(raw, "badgeText"), VariableDataText(raw))

\* PropertyListing.to_dict: data["photoUrls"] = self.photoUrls or []
ToDict(listing) ==
    [listing EXCEPT !.photoUrls =
        IF Truthy(listing.photoUrls.v) THEN listing.photoUrls ELSE PyList(<<>>)]

\* PropertyListing(): every field None
DefaultListing ==
    [zpid |-> Null, providerListingId |-> Null, statusType |-> Null,
     statusText |-> Null, imageSource |-> Null, detailUrl |-> Null,
     address |-> Null, addressStreet |-> Null, addressCity |-> Null,
     addressState |-> Null, addressZipcode |-> Null,
     latitude |-> Null, longitude |-> Null, buildingName |-> Null,
     contactPhoneNumber |-> Null, minPrice |-> Null, maxPrice |-> Null,
     unitTypes |-> Null, totalUnits |-> Null, photoUrls |-> NullList,
     isFeaturedListing |-> Null, badgeText |-> Null]

\* the first exception raised among the steps, in evaluation order
FirstExc(steps) ==
    LET bad == {i \in 1..Len(steps) : steps[i] # "none"}
    IN  IF bad = {} THEN "none"
        ELSE steps[CHOOSE i \in bad : \A j \in bad : i <= j]

ExcName(v) == IF IsExc(v) THEN v.s[1] ELSE "none"

\* the keyword arguments of lines 235-263, but for photoUrls
ListingArgs(raw) ==
    [DefaultListing EXCEPT
       !.zpid = ZpidOf(raw),
       !.providerListingId = ProviderListingIdOf(raw),
       !.statusType = StatusTypeOf(raw),
       !.statusText = StatusTextOf(raw),
       !.imageSource = ImageSourceOf(raw),
       !.detailUrl = DetailUrlOf(raw),
       !.latitude = LatitudeOf(raw),
       !.longitude = LongitudeOf(raw),
       !.buildingName = BuildingNameOf(raw),
       !.contactPhoneNumber = ContactPhoneNumberOf(raw),
       !.minPrice = MinPriceOf(raw),
       !.maxPrice = MaxPriceOf(raw),
       !.unitTypes = UnitTypesOf(raw),
       !.totalUnits = TotalUnitsOf(raw),
       !.isFeaturedListing = IsFeaturedListingOf(raw),
       !.badgeText = BadgeTextOf(raw)]

\* the exception one pass of the loop body raises, in the order of evaluation:
\* line 229, line 230, _format_address, then the keyword arguments
ListingExc(raw, addr, photos, args) ==
    FirstExc(<<IF IsDict(raw.kind) THEN "none" ELSE "AttributeError",
               ExcName(HomeInfoOf(raw)),
               addr.exc,
               ExcName(args.zpid), ExcName(args.providerListingId),
               ExcName(args.statusType), ExcName(args.statusText),
               ExcName(args.imageSource), ExcName(args.detailUrl),
               ExcName(args.latitude), ExcName(args.longitude),
               ExcName(args.buildingName), ExcName(args.contactPhoneNumber),
               ExcName(args.minPrice), ExcName(args.maxPrice),
               ExcName(args.unitTypes), ExcName(args.totalUnits),
               photos.exc,
               ExcName(args.isFeaturedListing), ExcName(args.badgeText)>>)

\* lines 266-272: the address fields are set and to_dict() is appended
Assemble(exc, addr, photos, args) ==
    IF exc # "none" THEN [exc |-> exc, rec |-> DefaultListing]
    ELSE [exc |-> "none",
          rec |-> ToDict([args EXCEPT
                     !.photoUrls = photos.list,
                     !.address = addr.address,
                     !.addressStreet = addr.addressStreet,
                     !.addressCity = addr.addressCity,
                     !.addressState = addr.addressState,
                     !.addressZipcode = addr.addressZipcode])]

ListingFrom(raw, addr, photos, args) ==
    Assemble(ListingExc(raw, addr, photos, args), addr, photos, args)

\* the body of the loop of parse_search_results (lines 229-272) for one raw
\* element: the record appended, or the exception that leaves the loop
NormalizeListing(raw) ==
    ListingFrom(raw, FormatAddress(raw), ExtractPhotos(raw), ListingArgs(raw))

\* --------------------------------------------------------- embedded state
\* The parsed JSON state along the path the code walks.  root, props and
\* pageProps are Dict when they are dicts holding the next key; the two
\* search states carry their own cat1 / searchResults / listResults.
NoSub ==
    [v |-> Absent, cat1 |-> Absent, searchResults |-> Absent,
     listResults |-> NoList]
NoneState ==
    [root |-> Null, props |-> Absent, pageProps |-> Absent,
     searchPageState |-> NoSub, searchState |-> NoSub]

\* obj[key]: KeyError for a dict without the key, TypeError for a non-dict
Index(obj, child) ==
    IF IsExc(obj) THEN obj
    ELSE IF ~IsDict(obj) THEN Exc("TypeError")
    ELSE IF obj = Dict /\ child.t # "absent" THEN child
    ELSE Exc("KeyError")

\* _extract_json_state: the script block first, the text fallback second;
\* a script whose JSON decodes is returned as it is (None for JSON null)
ExtractJsonState(html) ==
    IF html.script.found = "json" THEN html.script.state
    ELSE IF html.fallback.found = "json" THEN html.fallback.state
    ELSE NoneState

\* a non-dict element met while iterating a str (its characters) or a dict
\* (its keys)
StrRaw(c) == [EmptyRaw EXCEPT !.kind = Str(<<c>>)]

\* for raw in list_results
IterItems(lr) ==
    IF IsList(lr.v) THEN [exc |-> "none", items |-> lr.items]
    ELSE IF lr.v.t = "str" THEN
        [exc |-> "none", items |-> [i \in 1..Len(lr.v.s) |-> StrRaw(lr.v.s[i])]]
    ELSE IF lr.v = Dict THEN [exc |-> "none", items |-> <<StrRaw("x")>>]
    ELSE IF lr.v = EmptyDict THEN [exc |-> "none", items |-> <<>>]
    ELSE [exc |-> "TypeError", items |-> <<>>]

\* _iter_list_results: the raw elements yielded; caught is the KeyError or
\* TypeError the generator swallows, exc the exception that leaves it
IterListResults(state) ==
    LET props == Index(Index(state.root, state.props), state.pageProps)
        sps == GetFrom(props, IF props = Dict THEN state.searchPageState.v ELSE Absent)
        ss == GetFrom(props, IF props = Dict THEN state.searchState.v ELSE Absent)
        sub == IF Truthy(sps) THEN state.searchPageState ELSE state.searchState
        search_state == PyOr(sps, ss)
        cat1 == Index(search_state, sub.cat1)
        search_results == Index(cat1, sub.searchResults)
        list_results ==
            IF search_results = Dict /\ sub.listResults.v.t # "absent"
            THEN sub.listResults ELSE PyList(<<>>)
        it == IterItems(list_results)
    IN  IF IsExc(props) THEN [exc |-> "none", caught |-> props.s[1], items |-> <<>>]
        ELSE IF ~IsDict(props) THEN [exc |-> "AttributeError", caught |-> "none", items |-> <<>>]
        ELSE IF IsExc(search_results)
        THEN [exc |-> "none", caught |-> search_results.s[1], items |-> <<>>]
        ELSE IF ~IsDict(search_results)
        THEN [exc |-> "AttributeError", caught |-> "none", items |-> <<>>]
        ELSE [exc |-> "none", caught |-> it.exc, items |-> it.items]

\* one pass of the loop: first is what the body did with the element, rest
\* what the loop does with the elements after it
LoopStep(first, rest) ==
    IF first.exc # "none" THEN [exc |-> first.exc, records |-> <<>>]
    ELSE IF rest.exc # "none" THEN rest
    ELSE [exc |-> "none", records |-> <<first.rec>> \o rest.records]

RECURSIVE NormalizeAll(_)
\* the loop of lines 228-272: the records appended, until one element raises
NormalizeAll(raws) ==
    IF raws = <<>> THEN [exc |-> "none", records |-> <<>>]
    ELSE LoopStep(NormalizeListing(Head(raws)), NormalizeAll(Tail(raws)))

ParseState(state, it) ==
    IF state.root = Null THEN [exc |-> "none", records |-> <<>>]
    ELSE IF it.exc # "none" THEN [exc |-> it.exc, records |-> <<>>]
    ELSE NormalizeAll(it.items)

\* parse_search_results(html): exc is the exception that reaches the caller
\* ("none" when the list records is returned)
ParseSearchResults(html) ==
    ParseState(ExtractJsonState(html), IterListResults(ExtractJsonState(html)))

\* the fallback of _extract_json_state: the crude brace balance of lines
\* 137-146 over the text the regular expression matched.  A text is a sequence
\* of characters; q stands for the double quote.
RECURSIVE ScanFrom(_, _, _)
\* for i, ch in enumerate(candidate), entered at index i (from 1) with
\* brace_count: the end_index the loop leaves, 0 when it runs to the end
ScanFrom(text, i, brace_count) ==
    IF i > Len(text) THEN 0
    ELSE IF text[i] = "{" THEN ScanFrom(text, i + 1, brace_count + 1)
    ELSE IF text[i] = "}"
    THEN IF brace_count - 1 = 0 THEN i ELSE ScanFrom(text, i + 1, brace_count - 1)
    ELSE ScanFrom(text, i + 1, brace_count)

EndIndex(text) == ScanFrom(text, 1, 0)

\* candidate[:end_index], the text handed to json.loads when end_index is set
BraceScan(text) ==
    [done |-> TRUE, end_index |-> EndIndex(text),
     parsed |-> SubSeq(text, 1, EndIndex(text))]

\* ------------------------------------------------------------ the inputs
\* Values a JSON field may hold where the code expects a scalar
ScalarVals ==
    {Absent, Null, Str(<<>>), Str(<<"a">>), Str(<<"B">>), Num(<<"0">>),
     Num(<<"7">>), PyFalse}
\* Values a JSON field may hold where the code expects a dict
WrongVals ==
    {Absent, Null, Str(<<>>), Str(<<"a">>), Num(<<"0">>), Num(<<"7">>),
     PyFalse, PyTrue, EmptyList, SomeList, EmptyDict}
AddrVals == {Absent, Str(<<>>), Str(<<"a">>), Str(<<"B">>), Num(<<"0">>), Num(<<"7">>)}

\* A leaf of the raw listing: <<where, key>>
SetLeaf(raw, leaf, v) ==
    CASE leaf[1] = "top" -> [raw EXCEPT !.f[leaf[2]] = v]
      [] leaf[1] = "hdp" ->
            [raw EXCEPT !.hdpData = Dict, !.homeInfo = Dict, !.hdp[leaf[2]] = v]
      [] leaf[1] = "ll" -> [raw EXCEPT !.latLong = Dict, !.ll[leaf[2]] = v]
      [] leaf[1] = "addr" -> [raw EXCEPT !.address = Dict, !.addr[leaf[2]] = v]
      [] leaf[1] = "vd" -> [raw EXCEPT !.variableData = Dict, !.vdText = v]

\* the value the raw listing holds at a leaf (Absent when its parent is no dict)
LeafVal(raw, leaf) ==
    CASE leaf[1] = "top" -> raw.f[leaf[2]]
      [] leaf[1] = "hdp" ->
            IF raw.hdpData = Dict /\ raw.homeInfo = Dict THEN raw.hdp[leaf[2]] ELSE Absent
      [] leaf[1] = "ll" -> IF raw.latLong = Dict THEN raw.ll[leaf[2]] ELSE Absent
      [] leaf[1] = "addr" -> IF raw.address = Dict THEN raw.addr[leaf[2]] ELSE Absent
      [] leaf[1] = "vd" -> IF raw.variableData = Dict THEN raw.vdText ELSE Absent

RECURSIVE SetLeaves(_, _, _)
SetLeaves(raw, leaves, vals) ==
    IF leaves = <<>> THEN raw
    ELSE SetLeaves(SetLeaf(raw, Head(leaves), Head(vals)), Tail(leaves), Tail(vals))

\* The candidate sources of each field of the record, in the order the
\* constructor call of lines 234-264 and _format_address name them
Candidates ==
    [zpid |-> <<<<"top", "zpid">>, <<"hdp", "zpid">>>>,
     providerListingId |-> <<<<"top", "providerListingId">>, <<"hdp", "providerListingId">>>>,
     statusType |-> <<<<"top", "statusType">>, <<"hdp", "homeStatus">>>>,
     statusText |-> <<<<"top", "statusText">>, <<"top", "statusType">>>>,
     imageSource |-> <<<<"top", "imgSrc">>>>,
     detailUrl |-> <<<<"top", "detailUrl">>, <<"top", "detailUrlPath">>, <<"hdp", "detailUrl">>>>,
     addressStreet |-> <<<<"addr", "streetAddress">>, <<"top", "addressStreet">>>>,
     addressCity |-> <<<<"addr", "city">>, <<"top", "addressCity">>>>,
     addressState |-> <<<<"addr", "state">>, <<"top", "addressState">>>>,
     addressZipcode |-> <<<<"addr", "zipcode">>, <<"top", "addressZipcode">>>>,
     latitude |-> <<<<"ll", "latitude">>, <<"hdp", "latitude">>>>,
     longitude |-> <<<<"ll", "longitude">>, <<"hdp", "longitude">>>>,
     buildingName |-> <<<<"top", "buildingName">>, <<"hdp", "buildingName">>, <<"top", "name">>>>,
     contactPhoneNumber |-> <<<<"top", "contactPhoneNumber">>>>,
     minPrice |-> <<<<"top", "unformattedPrice">>, <<"top", "price">>, <<"hdp", "price">>>>,
     maxPrice |-> <<<<"top", "priceReduction">>, <<"top", "price">>, <<"hdp", "price">>>>,
     unitTypes |-> <<<<"top", "unitTypes">>, <<"top", "bedsBaths">>, <<"top", "beds">>>>,
     totalUnits |-> <<<<"top", "totalUnits">>, <<"hdp", "totalUnits">>>>,
     isFeaturedListing |-> <<<<"top", "isFeaturedListing">>>>,
     badgeText |-> <<<<"top", "badgeText">>, <<"vd", "text">>>>]
CoalescedFields == DOMAIN Candidates

\* raw listings that give the candidates of one field every combination of values
ChainRaws ==
    UNION {{SetLeaves(EmptyRaw, Candidates[fld], vals) :
                vals \in [1..Len(Candidates[fld]) -> ScalarVals]} :
           fld \in CoalescedFields}

\* raw listings with the four flat address components
AddressRaws ==
    {[EmptyRaw EXCEPT !.f["addressStreet"] = a[1], !.f["addressCity"] = a[2],
                      !.f["addressState"] = a[3], !.f["addressZipcode"] = a[4]] :
        a \in [1..4 -> AddrVals]}
    \cup
    {[EmptyRaw EXCEPT !.address = Dict,
                      !.addr = [k \in AddrKeys |-> a[k]],
                      !.f["addressCity"] = Str(<<"B">>)] :
        a \in [AddrKeys -> {Absent, Str(<<>>), Str(<<"a">>)}]}

\* every top-level key a non-empty string
FullTopRaw == [EmptyRaw EXCEPT !.f = [k \in TopKeys |-> Str(<<"a">>)]]

\* raw listings whose sub-objects, or which themselves, have the wrong type
ShapeRaws ==
    UNION {{[base EXCEPT !.latLong = w], [base EXCEPT !.address = w],
            [base EXCEPT !.variableData = w], [base EXCEPT !.hdpData = w],
            [base EXCEPT !.hdpData = Dict, !.homeInfo = w]} :
           base \in {EmptyRaw, FullTopRaw,
                     [FullTopRaw EXCEPT !.latLong = Dict,
                         !.ll = [k \in LatLongKeys |-> Num(<<"7">>)]]},
           w \in WrongVals \cup {Dict}}
    \cup {[EmptyRaw EXCEPT !.kind = w] : w \in (WrongVals \ {Absent, EmptyDict})}

SeqsOfLen(S, n) == [1..n -> S]
UrlItems == {Str(<<"a">>), Str(<<"B">>), Num(<<"7">>)}
PhotoObjects ==
    {[v |-> Dict, url |-> Str(<<"a">>)], [v |-> Dict, url |-> Str(<<"c">>)],
     [v |-> Dict, url |-> Absent], [v |-> Dict, url |-> Num(<<"7">>)],
     [v |-> Str(<<"a">>), url |-> Absent]}
ImgSrcVals == {Absent, Str(<<"a">>), Str(<<"c">>), Num(<<"7">>)}

\* raw listings with the three photo sources and imgSrc; the three lists hold
\* at most MaxPhotos elements together
PhotoRaws ==
    UNION {UNION {UNION {
        {[EmptyRaw EXCEPT !.f["imgSrc"] = img, !.photoUrls = ListOf(top),
                          !.hdpData = Dict, !.homeInfo = Dict,
                          !.hdpPhotoUrls = ListOf(hp), !.hdpPhotos = ListOf(ho)] :
            img \in ImgSrcVals, top \in SeqsOfLen(UrlItems, i),
            hp \in SeqsOfLen(UrlItems, j), ho \in SeqsOfLen(PhotoObjects, k)} :
        k \in 0..(MaxPhotos - i - j)} : j \in 0..(MaxPhotos - i)} : i \in 0..MaxPhotos}
    \cup
    {[EmptyRaw EXCEPT !.photoUrls = [v |-> w, items |-> <<>>],
                      !.hdpData = Dict, !.homeInfo = Dict,
                      !.hdpPhotoUrls = [v |-> w, items |-> <<>>],
                      !.hdpPhotos = [v |-> w, items |-> <<>>]] :
        w \in {Null, Str(<<"a">>), Dict, EmptyList}}

RawInputs == ChainRaws \cup AddressRaws \cup ShapeRaws \cup PhotoRaws

\* a state whose path resolves, through searchPageState, to the list items
GoodState(items) ==
    [root |-> Dict, props |-> Dict, pageProps |-> Dict,
     searchPageState |->
        [v |-> Dict, cat1 |-> Dict, searchResults |-> Dict,
         listResults |-> ListOf(items)],
     searchState |-> NoSub]

\* raw listings used where the shape of the state is what varies
ListingUnit == SetLeaf(EmptyRaw, <<"top", "unitTypes">>, Str(<<"a">>))
NavRaws ==
    {EmptyRaw,
     SetLeaf(EmptyRaw, <<"top", "zpid">>, Num(<<"7">>)),
     [EmptyRaw EXCEPT !.hdpData = Null],
     StrRaw("a")}
NavLists == UNION {SeqsOfLen(NavRaws, n) : n \in 0..MaxListings}

\* a search state: broken at each level by each wrong value, or whole
NavSubs ==
    {[NoSub EXCEPT !.v = w] : w \in WrongVals}
    \cup {[NoSub EXCEPT !.v = Dict, !.cat1 = w] : w \in WrongVals}
    \cup {[NoSub EXCEPT !.v = Dict, !.cat1 = Dict, !.searchResults = w] : w \in WrongVals}
    \cup {[NoSub EXCEPT !.v = Dict, !.cat1 = Dict, !.searchResults = Dict,
                        !.listResults = [v |-> w, items |-> <<>>]] :
            w \in (WrongVals \ {EmptyList, SomeList}) \cup {Dict}}
    \cup {[NoSub EXCEPT !.v = Dict, !.cat1 = Dict, !.searchResults = Dict,
                        !.listResults = ListOf(items)] : items \in NavLists}

\* the search state beside the one that varies
OtherSubs ==
    {NoSub, [NoSub EXCEPT !.v = Null], [NoSub EXCEPT !.v = EmptyDict],
     [NoSub EXCEPT !.v = Str(<<"a">>)],
     [NoSub EXCEPT !.v = Dict, !.cat1 = Dict, !.searchResults = Dict,
                   !.listResults = ListOf(<<ListingUnit>>)]}

NavStates ==
    {[NoneState EXCEPT !.root = w] : w \in WrongVals \ {Absent}}
    \cup {[NoneState EXCEPT !.root = Dict, !.props = w] : w \in WrongVals}
    \cup {[NoneState EXCEPT !.root = Dict, !.props = Dict, !.pageProps = w] : w \in WrongVals}
    \cup {[NoneState EXCEPT !.root = Dict, !.props = Dict, !.pageProps = Dict,
                            !.searchPageState = a, !.searchState = b] :
            a \in NavSubs, b \in OtherSubs}
    \cup {[NoneState EXCEPT !.root = Dict, !.props = Dict, !.pageProps = Dict,
                            !.searchPageState = a, !.searchState = b] :
            a \in OtherSubs, b \in NavSubs}

\* the document: the script block (absent, undecodable or decoded to state) and
\* what the text fallback of lines 131-151 finds
NoBlock == [found |-> "none", state |-> NoneState]
BadBlock == [found |-> "badjson", state |-> NoneState]
JsonBlock(state) == [found |-> "json", state |-> state]
ScriptPage(state) == [script |-> JsonBlock(state), fallback |-> NoBlock]

SmallStates ==
    {NoneState, GoodState(<<>>), GoodState(<<EmptyRaw>>),
     [NoneState EXCEPT !.root = Dict]}
Blocks == {NoBlock, BadBlock} \cup {JsonBlock(st) : st \in SmallStates}

HtmlInputs ==
    {ScriptPage(st) : st \in NavStates}
    \cup {ScriptPage(GoodState(<<raw>>)) : raw \in RawInputs}
    \cup {[script |-> a, fallback |-> b] : a \in Blocks, b \in Blocks}

\* --------------------------------------------------- fetch_city_listings
\* str.lower() over the letters the model's strings use
LowerChar(c) ==
    CASE c = "A" -> "a" [] c = "B" -> "b" [] c = "F" -> "f"
      [] c = "N" -> "n" [] c = "T" -> "t" [] OTHER -> c
Lower(cs) == [i \in 1..Len(cs) |-> LowerChar(cs[i])]

\* a in b, for strings
IsSubstring(a, b) ==
    \E i \in 0..(Len(b) - Len(a)) : SubSeq(b, i + 1, i + Len(a)) = a

\* the match without the lower-casing of either side
MatchesHomeTypesExact(rec, home_types) ==
    \E i \in 1..Len(home_types) :
        IsSubstring(home_types[i], PyStr(PyOr(rec.unitTypes, Str(<<>>))).s)

\* any(ht in unit_types for ht in normalized), lines 298-302
MatchesHomeTypes(rec, home_types) ==
    LET unit_types == Lower(PyStr(PyOr(rec.unitTypes, Str(<<>>))).s)
    IN  \E i \in 1..Len(home_types) : IsSubstring(Lower(home_types[i]), unit_types)

RECURSIVE FilterRecords(_, _)
FilterRecords(records, home_types) ==
    IF records = <<>> THEN <<>>
    ELSE IF MatchesHomeTypes(Head(records), home_types)
    THEN <<Head(records)>> \o FilterRecords(Tail(records), home_types)
    ELSE FilterRecords(Tail(records), home_types)

\* fetch_city_listings once fetch_search_page has returned the document doc:
\* parse, then the post-filter (lines 291-312)
PostFilter(parsed, home_types) ==
    IF parsed.exc # "none" THEN parsed
    ELSE IF parsed.records = <<>> THEN parsed
    ELSE IF home_types # <<>>
    THEN [exc |-> "none", records |-> FilterRecords(parsed.records, home_types)]
    ELSE parsed
ListingsOf(doc, home_types) == PostFilter(ParseSearchResults(doc), home_types)

\* ------------------------------------------------------------- exporters
\* export metadata: keys are the keys the dict holds
NoMetadata == [keys |-> {}, recordCount |-> 0, cityCount |-> 0, listingTypes |-> <<>>]

\* recordCount taken from the cities in place of the records
RunMetadataOfCities(cities, listing_types, records) ==
    [keys |-> {"generatedAt", "cityCount", "listingTypes", "recordCount"},
     recordCount |-> Len(cities), cityCount |-> Len(cities),
     listingTypes |-> listing_types]

\* the metadata dict run() builds, lines 117-122
RunMetadata(cities, listing_types, records) ==
    [keys |-> {"generatedAt", "cityCount", "listingTypes", "recordCount"},
     recordCount |-> Len(records), cityCount |-> Len(cities),
     listingTypes |-> listing_types]

\* metadata = metadata or {}; metadata.setdefault("generatedAt", ...)
WithGeneratedAt(metadata) == [metadata EXCEPT !.keys = @ \cup {"generatedAt"}]

NoFile == [written |-> FALSE, format |-> "", metadata |-> NoMetadata, results |-> <<>>]

\* str.lower() over the format strings the model uses
FormatLower(f) ==
    CASE f = "CSV" -> "csv" [] f = "Json" -> "json" [] OTHER -> f

\* a dispatch that knows one format more
RecordFormatsAndYaml == {"json", "xml", "rss", "html", "yaml"}

\* the formats export_records dispatches on, lines 226-233
RecordFormats == {"json", "xml", "rss", "html"}

\* export_records(records, fmt, output_path, metadata): the file written, or
\* ValueError for a format it does not know
ExportRecords(records, fmt, metadata) ==
    IF FormatLower(fmt) \in RecordFormats
    THEN [exc |-> "none",
          file |-> [written |-> TRUE, format |-> FormatLower(fmt),
                    metadata |-> WithGeneratedAt(metadata), results |-> records]]
    ELSE [exc |-> "ValueError", file |-> NoFile]

\* export_to_csv(records, output_path): a file in either branch
ExportToCsv(records) ==
    [exc |-> "none",
     file |-> [written |-> TRUE, format |-> "csv", metadata |-> NoMetadata,
               results |-> records]]

\* export_to_csv in detail.  A record is a dict in key order: a sequence of
\* <<key, value>> pairs.  A cell is the text a CSV reader gets back for it;
\* the quoting the csv module adds around it is left out.
KeysOf(rec) == [i \in 1..Len(rec) |-> rec[i][1]]
HasKey(rec, key) == \E i \in 1..Len(rec) : rec[i][1] = key
ValueOf(rec, key) == rec[CHOOSE i \in 1..Len(rec) : rec[i][1] = key][2]

RECURSIVE AllKeys(_)
\* the keys the two loops of _collect_fieldnames visit, in order
AllKeys(records) ==
    IF records = <<>> THEN <<>> ELSE KeysOf(Head(records)) \o AllKeys(Tail(records))

RECURSIVE FirstSeen(_, _)
\* the seen / fieldnames bookkeeping of lines 11-16
FirstSeen(keys, seen) ==
    IF keys = <<>> THEN <<>>
    ELSE IF Head(keys) \in seen THEN FirstSeen(Tail(keys), seen)
    ELSE <<Head(keys)>> \o FirstSeen(Tail(keys), seen \cup {Head(keys)})

CollectFieldnames(records) == FirstSeen(AllKeys(records), {})

\* "" if v is None else str(v)
TextOrEmpty(v) == IF IsNone(v) THEN <<>> ELSE PyStr(v).s

\* the elements joined with a comma
CommaJoin(items) == Join([i \in 1..Len(items) |-> TextOrEmpty(items[i])], <<",">>)

\* "|".join("" if v is None else str(v) for v in value)   (line 43)
PipeJoin(items) == Join([i \in 1..Len(items) |-> TextOrEmpty(items[i])], <<"|">>)

IsListValue(value) == "items" \in DOMAIN value

\* flat[key] of lines 41-45
Flat(value) == IF IsListValue(value) THEN PipeJoin(value.items) ELSE TextOrEmpty(value)

\* the cell DictWriter writes for a column: restval "" for a key flat lacks
CellOf(rec, key) == IF HasKey(rec, key) THEN Flat(ValueOf(rec, key)) ELSE <<>>
RowOf(rec, fieldnames) == [j \in 1..Len(fieldnames) |-> CellOf(rec, fieldnames[j])]

\* export_to_csv(records, output_path): the file written
CsvFileOf(records) ==
    IF records = <<>>
    THEN [written |-> TRUE, hasHeader |-> FALSE, header |-> <<>>, rows |-> <<>>]
    ELSE [written |-> TRUE, hasHeader |-> TRUE,
          header |-> CollectFieldnames(records),
          rows |-> [i \in 1..Len(records) |-> RowOf(records[i], CollectFieldnames(records))]]

\* ------------------------------------------------------------ utils_geo
\* float(v) succeeds for numbers, booleans and numeric strings
FloatOk(v) == v.t \in {"num", "bool"} \/ (v.t = "str" /\ v.s \in {<<"0">>, <<"7">>})

\* compute_centroid(coords): ValueError for no coordinate, and float() raises
\* for a latitude or longitude that is no number
ComputeCentroid(coords) ==
    IF \E i \in 1..Len(coords) : ~FloatOk(coords[i][1]) \/ ~FloatOk(coords[i][2])
    THEN "ValueError"
    ELSE IF coords = <<>> THEN "ValueError"
    ELSE "none"

\* ------------------------------------------------------------- main.run
Formats == {"json", "csv", "xml", "rss", "html", "yaml", "CSV", "Json"}
CityNames == <<"Austin, TX", "Boston", "Chicago", "Denver">>
TypeNames == <<"for_rent", "for_sale", "sold", "rent">>
HomeTypeChoices == {<<>>, <<<<"b">>>>}

\* the configurations: at most MaxQueries queries in the sweep
Shapes ==
    {sh \in (0..MaxCities) \X (0..MaxTypes) \X (0..MaxPages) :
        sh[1] * sh[2] * sh[3] <= MaxQueries}
Configs ==
    {[loadable |-> TRUE, cities |-> SubSeq(CityNames, 1, sh[1]),
      listingTypes |-> SubSeq(TypeNames, 1, sh[2]),
      maxPages |-> sh[3], homeTypes |-> ht, format |-> fmt] :
        sh \in Shapes, ht \in HomeTypeChoices, fmt \in Formats}

\* the documents the site answers with
ListingA ==
    [SetLeaves(EmptyRaw,
               <<<<"top", "zpid">>, <<"top", "unitTypes">>, <<"ll", "latitude">>,
                 <<"ll", "longitude">>>>,
               <<Num(<<"7">>), Str(<<"a">>), Num(<<"7">>), Num(<<"0">>)>>)
     EXCEPT !.hdpData = Dict, !.homeInfo = Dict, !.hdp["longitude"] = Num(<<"7">>)]
ListingB ==
    SetLeaves(EmptyRaw, <<<<"top", "zpid">>, <<"top", "bedsBaths">>>>,
              <<Str(<<"a">>), Str(<<"B">>)>>)
PageTwo == ScriptPage(GoodState(<<ListingA, ListingB>>))
PageOne == ScriptPage(GoodState(<<ListingA>>))
PageNoState == [script |-> NoBlock, fallback |-> NoBlock]
PageBadListing == ScriptPage(GoodState(<<ListingB, [EmptyRaw EXCEPT !.hdpData = Null]>>))
\* a listing whose latitude is a string float() does not take
ListingC ==
    SetLeaves(EmptyRaw, <<<<"ll", "latitude">>, <<"ll", "longitude">>>>,
              <<Str(<<"a">>), Num(<<"7">>)>>)
PageBadCoords == ScriptPage(GoodState(<<ListingC>>))
SitePages == {PageTwo, PageOne, PageNoState, PageBadListing, PageBadCoords}

\* the queries of the sweep: <<city index, listing type index, page>>
FirstQuery == <<1, 1, 1>>

\* the loops nested the other way round: cities innermost
AdvanceCityInnermost(q, c) ==
    IF q[1] < Len(c.cities) THEN <<q[1] + 1, q[2], q[3]>>
    ELSE IF q[2] < Len(c.listingTypes) THEN <<1, q[2] + 1, q[3]>>
    ELSE IF q[3] < c.maxPages THEN <<1, 1, q[3] + 1>>
    ELSE <<0, 0, 0>>

\* the nested for loops of lines 63-65: the query after q, <<0, 0, 0>> when
\* the loops are over
Advance(q, c) ==
    IF q[3] < c.maxPages THEN <<q[1], q[2], q[3] + 1>>
    ELSE IF q[2] < Len(c.listingTypes) THEN <<q[1], q[2] + 1, 1>>
    ELSE IF q[1] < Len(c.cities) THEN <<q[1] + 1, 1, 1>>
    ELSE <<0, 0, 0>>
LoopOver == <<0, 0, 0>>

\* the loops run no iteration at all
NoQuery(c) == c.cities = <<>> \/ c.listingTypes = <<>> \/ c.maxPages < 1

\* the guard of line 97 left out
NothingToExportNever(records) == FALSE

\* if not all_records: return   (line 97)
NothingToExport(records) == records = <<>>

\* ------------------------------------------------------------- variables
VARIABLES
    html,         \* the document handed to parse_search_results
    result,       \* what the call returned or raised
    called,       \* whether parse_search_results has been called
    config,       \* the loaded configuration, the CLI override applied
    pc,           \* where main() is: load, loop, fetching, export, done
    query,        \* the loop variables city, listing_type, page (as indexes)
    all_records,  \* run()'s aggregate
    inflight,     \* the queries whose request is outstanding
    fetchLog,     \* every request sent, in order
    failedLog,    \* the queries that ended in an exception
    sweepDone,    \* the loops ended without an exception
    keptCount,    \* records returned by fetch_city_listings so far
    exporterCalls,\* calls of export_records and export_to_csv
    direct,       \* the exporter was called by a caller other than run()
    outFile,      \* the output file
    exitCode,     \* the process exit code, -1 while running
    centroidLog,  \* the coordinate lists run() handed to compute_centroid
    csvRecords,   \* the records handed to export_to_csv called on its own
    csvFile,      \* the file export_to_csv wrote
    candidate,    \* the text the fallback of _extract_json_state matched
    scanned       \* what the brace scan made of it

NoCsvFile == [written |-> FALSE, hasHeader |-> FALSE, header |-> <<>>, rows |-> <<>>]
NoScan == [done |-> FALSE, end_index |-> 0, parsed |-> <<>>]

parseVars == <<html, result, called>>
runVars ==
    <<config, pc, query, all_records, inflight, fetchLog, failedLog, sweepDone,
      keptCount, exporterCalls, direct, outFile, exitCode, centroidLog>>
callVars == <<csvRecords, csvFile, candidate, scanned>>
vars == <<html, result, called, config, pc, query, all_records, inflight, fetchLog,
          failedLog, sweepDone, keptCount, exporterCalls, direct, outFile, exitCode,
          centroidLog, csvRecords, csvFile, candidate, scanned>>

NoResult == [exc |-> "none", records |-> <<>>]
NoConfig ==
    [loadable |-> FALSE, cities |-> <<>>, listingTypes |-> <<>>, maxPages |-> 0, homeTypes |-> <<>>,
     format |-> "json"]

RunIdle ==
    /\ pc = "load"
    /\ query = LoopOver
    /\ all_records = <<>>
    /\ inflight = {}
    /\ fetchLog = <<>>
    /\ failedLog = <<>>
    /\ sweepDone = FALSE
    /\ keptCount = 0
    /\ exporterCalls = 0
    /\ direct = FALSE
    /\ outFile = NoFile
    /\ exitCode = -1
    /\ centroidLog = <<>>

\* no call of export_to_csv or of the brace scan on its own
CallIdle ==
    /\ csvRecords = <<>>
    /\ csvFile = NoCsvFile
    /\ candidate = <<>>
    /\ scanned = NoScan

\* ------------------------------------------- the extractor called on its own
InitParse ==
    /\ html \in HtmlInputs
    /\ result = NoResult
    /\ called = FALSE
    /\ config = NoConfig
    /\ RunIdle
    /\ CallIdle

CallParse ==
    /\ ~called
    /\ result' = ParseSearchResults(html)
    /\ called' = TRUE
    /\ UNCHANGED <<html, runVars, callVars>>

NextParse == CallParse

SpecParse == InitParse /\ [][NextParse]_vars

\* ------------------------------ fetch_city_listings once the page is fetched
\* raw listings whose unit-type descriptor varies
UnitTypeRaws ==
    {SetLeaf(EmptyRaw, <<"top", "unitTypes">>, v) :
        v \in {Absent, Str(<<"a", "B">>), Str(<<"b">>), Str(<<>>), Num(<<"7">>)}}
    \cup {SetLeaf(EmptyRaw, <<"top", "beds">>, Num(<<"0">>))}
FilterPages ==
    {ScriptPage(GoodState(items)) :
        items \in UNION {SeqsOfLen(UnitTypeRaws, n) : n \in 0..MaxListings}}
FilterHomeTypes ==
    {<<>>, <<<<"b">>>>, <<<<"A", "B">>>>, <<<<"n">>>>, <<<<"0">>>>,
     <<<<"7">>, <<"x">>>>, <<<<>>>>}

InitListings ==
    /\ html \in FilterPages
    /\ result = NoResult
    /\ called = FALSE
    /\ config \in {[NoConfig EXCEPT !.loadable = TRUE, !.homeTypes = ht] : ht \in FilterHomeTypes}
    /\ RunIdle
    /\ CallIdle

\* records = self.parse_search_results(html) and the post-filter
CallFetchCityListings ==
    /\ ~called
    /\ result' = ListingsOf(html, config.homeTypes)
    /\ called' = TRUE
    /\ UNCHANGED <<html, runVars, callVars>>

NextListings == CallFetchCityListings

SpecListings == InitListings /\ [][NextListings]_vars

\* ------------------------------------------- export_to_csv called on its own
CsvValues == {Str(<<"1">>), Null, ListOf(<<Str(<<"x">>), Str(<<"y">>)>>)}
\* dicts of at most two of the keys a and b, in either order, and three more
CsvDicts ==
    {<<>>}
    \cup {<<<<k, v>>>> : k \in {"a", "b"}, v \in CsvValues}
    \cup {<<<<k[1], v>>, <<k[2], w>>>> :
            k \in {<<"a", "b">>, <<"b", "a">>}, v \in CsvValues, w \in CsvValues}
    \cup {<<<<"c", Num(<<"7">>)>>>>,
          <<<<"a", ListOf(<<Null, Str(<<"x">>)>>)>>>>,
          <<<<"b", ListOf(<<>>)>>>>}
CsvInputs == UNION {SeqsOfLen(CsvDicts, n) : n \in 0..MaxExport}

InitCsv ==
    /\ html = PageNoState
    /\ result = NoResult
    /\ called = FALSE
    /\ config = NoConfig
    /\ RunIdle
    /\ csvRecords \in CsvInputs
    /\ csvFile = NoCsvFile
    /\ candidate = <<>>
    /\ scanned = NoScan

CallExportToCsv ==
    /\ ~csvFile.written
    /\ csvFile' = CsvFileOf(csvRecords)
    /\ UNCHANGED <<parseVars, runVars, csvRecords, candidate, scanned>>

NextCsv == CallExportToCsv

SpecCsv == InitCsv /\ [][NextCsv]_vars

\* ------------------------------------------------ the brace scan on its own
\* the texts the regular expression of line 133 can match: they open with a
\* brace and end with one
TextChars == {"{", "}", "q", "a"}
CandidateTexts ==
    {<<"{">> \o body \o <<"}">> :
        body \in UNION {SeqsOfLen(TextChars, n) : n \in 0..(MaxText - 2)}}

InitScan ==
    /\ html = PageNoState
    /\ result = NoResult
    /\ called = FALSE
    /\ config = NoConfig
    /\ RunIdle
    /\ csvRecords = <<>>
    /\ csvFile = NoCsvFile
    /\ candidate \in CandidateTexts
    /\ scanned = NoScan

CallBraceScan ==
    /\ ~scanned.done
    /\ scanned' = BraceScan(candidate)
    /\ UNCHANGED <<parseVars, runVars, csvRecords, csvFile, candidate>>

NextScan == CallBraceScan

SpecScan == InitScan /\ [][NextScan]_vars

\* ------------------------------------------------------------ main, run
Init ==
    /\ html = PageNoState
    /\ result = NoResult
    /\ called = FALSE
    /\ config \in Configs \cup {NoConfig}
    /\ RunIdle
    /\ CallIdle

\* main() up to the loops of run(): load_config fails (exit 1), no city is
\* configured (run returns), or the loops start
LoadConfig ==
    /\ pc = "load"
    /\ IF ~config.loadable THEN pc' = "done" /\ exitCode' = 1 /\ query' = LoopOver
       ELSE IF config.cities = <<>> THEN pc' = "done" /\ exitCode' = 0 /\ query' = LoopOver
       ELSE /\ pc' = "loop"
            /\ exitCode' = exitCode
            /\ query' = IF NoQuery(config) THEN LoopOver ELSE FirstQuery
    /\ UNCHANGED <<parseVars, callVars, centroidLog,
                   config, all_records, inflight, fetchLog, failedLog,
                   sweepDone, keptCount, exporterCalls, direct, outFile>>

\* one iteration begins: fetch_city_listings builds the URL and sends the request
StartFetch ==
    /\ pc = "loop"
    /\ query # LoopOver
    /\ fetchLog' = Append(fetchLog, query)
    /\ inflight' = inflight \cup {query}
    /\ pc' = "fetching"
    /\ UNCHANGED <<parseVars, callVars, centroidLog,
                   config, query, all_records, failedLog, sweepDone,
                   keptCount, exporterCalls, direct, outFile, exitCode>>

\* the request fails: fetch_search_page raises ZillowClientError, run() logs it
\* (lines 88-95) and goes on with the next query
FetchFails ==
    /\ pc = "fetching"
    /\ inflight' = inflight \ {query}
    /\ failedLog' = Append(failedLog, query)
    /\ query' = Advance(query, config)
    /\ pc' = "loop"
    /\ UNCHANGED <<parseVars, callVars, centroidLog,
                   config, all_records, fetchLog, sweepDone, keptCount,
                   exporterCalls, direct, outFile, exitCode>>

\* the request returns a document that parses: the filtered records are appended
FetchReturns ==
    /\ pc = "fetching"
    /\ \E r \in {ListingsOf(doc, config.homeTypes) : doc \in SitePages} :
          /\ r.exc = "none"
          /\ all_records' = all_records \o r.records
          /\ keptCount' = keptCount + Len(r.records)
    /\ inflight' = inflight \ {query}
    /\ query' = Advance(query, config)
    /\ pc' = "loop"
    /\ UNCHANGED <<parseVars, callVars, centroidLog,
                   config, fetchLog, failedLog, sweepDone, exporterCalls,
                   direct, outFile, exitCode>>

\* the request returns a document on which parse_search_results raises: the
\* exception is no ZillowClientError, leaves run() and main() exits with 1
ExtractionRaises ==
    /\ pc = "fetching"
    /\ \E doc \in SitePages : ListingsOf(doc, config.homeTypes).exc # "none"
    /\ inflight' = inflight \ {query}
    /\ failedLog' = Append(failedLog, query)
    /\ pc' = "done"
    /\ exitCode' = 1
    /\ UNCHANGED <<parseVars, callVars, centroidLog,
                   config, query, all_records, fetchLog, sweepDone,
                   keptCount, exporterCalls, direct, outFile>>

\* coords of lines 101-105
RECURSIVE Coords(_)
Coords(records) ==
    IF records = <<>> THEN <<>>
    ELSE IF ~IsNone(Head(records).latitude) /\ ~IsNone(Head(records).longitude)
    THEN <<<<Head(records).latitude, Head(records).longitude>>>> \o Coords(Tail(records))
    ELSE Coords(Tail(records))

\* output_format = output_cfg.get("format", "json").lower()   (line 49)
OutputFormat(c) == FormatLower(c.format)

\* the export of lines 126-129
RunExport(c, records) ==
    IF OutputFormat(c) = "csv" THEN ExportToCsv(records)
    ELSE ExportRecords(records, OutputFormat(c),
                       RunMetadata(c.cities, c.listingTypes, records))

\* the guard of line 106 left out
CentroidCalledAlways(coords) == TRUE

\* if coords:   (line 106)
CentroidCalled(coords) == coords # <<>>

\* the calls of compute_centroid run() makes for its aggregate, lines 97-107
CentroidCalls(records) ==
    IF ~NothingToExport(records) /\ CentroidCalled(Coords(records))
    THEN <<Coords(records)>> ELSE <<>>
CentroidRaises(records) ==
    CentroidCalled(Coords(records)) /\ ComputeCentroid(Coords(records)) # "none"

\* run() after the loops (lines 97-131) and the end of main()
Finish ==
    /\ pc = "loop"
    /\ query = LoopOver
    /\ sweepDone' = TRUE
    /\ pc' = "done"
    /\ centroidLog' = centroidLog \o CentroidCalls(all_records)
    /\ IF NothingToExport(all_records)
       THEN exitCode' = 0 /\ UNCHANGED <<exporterCalls, outFile>>
       ELSE IF CentroidRaises(all_records)
       THEN exitCode' = 1 /\ UNCHANGED <<exporterCalls, outFile>>
       ELSE \E e \in {RunExport(config, all_records)} :
                /\ exporterCalls' = exporterCalls + 1
                /\ outFile' = IF e.exc = "none" THEN e.file ELSE outFile
                /\ exitCode' = IF e.exc = "none" THEN 0 ELSE 1
    /\ UNCHANGED <<parseVars, callVars, config, query, all_records, inflight, fetchLog,
                   failedLog, keptCount, direct>>

Next == LoadConfig \/ StartFetch \/ FetchFails \/ FetchReturns \/ ExtractionRaises \/ Finish

Spec == Init /\ [][Next]_vars

\* ------------------------------------- export_records called by another caller
ExportedRecord(z) == [DefaultListing EXCEPT !.zpid = Str(<<z>>), !.photoUrls = PyList(<<>>)]
ExportInputs == UNION {SeqsOfLen({ExportedRecord("a"), ExportedRecord("c")}, n) : n \in 0..MaxExport}
\* metadata=None, or a dict with or without a recordCount
MetadataInputs ==
    {NoMetadata}
    \cup {[NoMetadata EXCEPT !.keys = {"recordCount"}, !.recordCount = n] : n \in 0..MaxExport}
    \cup {[NoMetadata EXCEPT !.keys = {"cityCount"}, !.cityCount = 1]}

CallExportRecords ==
    /\ pc = "load"
    /\ \E records \in ExportInputs, fmt \in Formats, metadata \in MetadataInputs :
          \E e \in {ExportRecords(records, fmt, metadata)} :
              outFile' = IF e.exc = "none" THEN e.file ELSE outFile
    /\ exporterCalls' = exporterCalls + 1
    /\ direct' = TRUE
    /\ pc' = "done"
    /\ UNCHANGED <<parseVars, callVars, centroidLog,
                   config, query, all_records, inflight, fetchLog,
                   failedLog, sweepDone, keptCount, exitCode>>

NextExport == Next \/ CallExportRecords

SpecExport == Init /\ [][NextExport]_vars

\* ------------------------------------------------ claims on the extractor
\* the raw elements the returned records were built from, in order
RawsOf(doc) == IterListResults(ExtractJsonState(doc)).items
Returned == called /\ result.exc = "none"
RecordIndexes == IF Returned THEN 1..Len(result.records) ELSE {}

\* C4: parse_search_results never raises for malformed or missing data: every
\* call returns a list, whatever the shape of the state and of the raw listings.
C4_NeverRaises == called => result.exc = "none"

\* the fixed key path resolves to a list whose elements are all objects
Resolves(state) ==
    LET sub == IF state.searchPageState.v = Dict THEN state.searchPageState
               ELSE state.searchState
    IN  /\ state.root = Dict /\ state.props = Dict /\ state.pageProps = Dict
        /\ ~Truthy(state.searchPageState.v) \/ state.searchPageState.v = Dict
        /\ sub.v = Dict /\ sub.cat1 = Dict /\ sub.searchResults = Dict
        /\ IsList(sub.listResults.v)
        /\ \A i \in 1..Len(sub.listResults.items) : IsDict(sub.listResults.items[i].kind)
ResolvedList(state) ==
    IF state.searchPageState.v = Dict THEN state.searchPageState.listResults.items
    ELSE state.searchState.listResults.items

\* C5: when the script block decodes and the key path resolves to a list of N
\* raw objects, exactly N records are returned, one per raw object, in order.
C5_ExactlyN ==
    (called /\ html.script.found = "json" /\ Resolves(html.script.state)) =>
        /\ result.exc = "none"
        /\ Len(result.records) = Len(ResolvedList(html.script.state))
        /\ \A i \in 1..Len(result.records) :
              result.records[i] = NormalizeListing(ResolvedList(html.script.state)[i]).rec

\* every entry of the three photo sources of a raw listing, in source order
PhotoSources(raw) ==
    LET hdpIsDict == raw.hdpData = Dict /\ raw.homeInfo = Dict
        top == IF IsList(raw.photoUrls.v) THEN raw.photoUrls.items ELSE <<>>
        hp == IF hdpIsDict /\ IsList(raw.hdpPhotoUrls.v) THEN raw.hdpPhotoUrls.items ELSE <<>>
        ho == IF hdpIsDict /\ IsList(raw.hdpPhotos.v)
              THEN [i \in 1..Len(raw.hdpPhotos.items) |-> raw.hdpPhotos.items[i].url]
              ELSE <<>>
    IN  top \o hp \o ho
FirstIndex(seq, x) == CHOOSE i \in 1..Len(seq) : seq[i] = x /\ \A j \in 1..(i - 1) : seq[j] # x
Elems(seq) == {seq[i] : i \in 1..Len(seq)}

PhotosOk(raw, photoUrls) ==
    LET src == PhotoSources(raw)
        img == raw.f["imgSrc"]
        urls == photoUrls.items
    IN  /\ IsList(photoUrls.v)
        /\ \A i \in 1..Len(urls) : IsStr(urls[i])
        /\ \A i, j \in 1..Len(urls) : i # j => urls[i] # urls[j]
        /\ Elems(urls) = {u \in Elems(src) \cup {img} : IsStr(u)}
        /\ IsStr(img) => urls[1] = img
        /\ \A i, j \in 1..Len(urls) :
              (i < j /\ urls[i] # img /\ urls[j] # img) =>
                  FirstIndex(src, urls[i]) < FirstIndex(src, urls[j])

\* C6: photoUrls of every record is a list, never null, of strings only, without
\* duplicates, in first-seen order of the sources (top-level photoUrls, homeInfo
\* photoUrls, homeInfo photos[].url), with a string imgSrc as its first element.
C6_PhotoUrls == \A i \in RecordIndexes : PhotosOk(RawsOf(html)[i], result.records[i].photoUrls)

\* a record built from overlapping sources: imgSrc is the second entry of the
\* list sources and becomes the first element of the record's photoUrls
C6_Witness ==
    \E i \in RecordIndexes :
        /\ IsStr(RawsOf(html)[i].f["imgSrc"])
        /\ RawsOf(html)[i].f["imgSrc"] \in Elems(PhotoSources(RawsOf(html)[i]))
        /\ Len(PhotoSources(RawsOf(html)[i])) = 2
        /\ PhotoSources(RawsOf(html)[i])[1] # RawsOf(html)[i].f["imgSrc"]
        /\ result.records[i].photoUrls.items =
              <<RawsOf(html)[i].f["imgSrc"], PhotoSources(RawsOf(html)[i])[1]>>

Components(rec) ==
    <<rec.addressStreet, rec.addressCity, rec.addressState, rec.addressZipcode>>
NonNull(v) == ~IsNone(v)
JoinedAddress(comps) == Str(Join([i \in 1..Len(comps) |-> comps[i].s], CommaSpace))

\* C7 as stated: the composite address is the ", " join of the non-null
\* components and is null exactly when all four components are null.
C7_JoinOfNonNull ==
    \A i \in RecordIndexes :
        LET rec == result.records[i]
            nn == SelectSeq(Components(rec), NonNull)
        IN  /\ rec.address # Null => rec.address = JoinedAddress(nn)
            /\ rec.address = Null <=> nn = <<>>

\* C7 amended: the composite address is the ", " join of the truthy components
\* (non-null and not empty, zero or false), in the order street, city, state,
\* zip; it is null exactly when no component is truthy, never the empty string.
C7_JoinOfTruthy ==
    \A i \in RecordIndexes :
        LET rec == result.records[i]
            tr == SelectSeq(Components(rec), Truthy)
        IN  /\ rec.address # Null => rec.address = JoinedAddress(tr)
            /\ rec.address = Null <=> tr = <<>>
            /\ rec.address # Str(<<>>)

\* an empty-string street beside a city: the composite is the city alone
C7_Witness ==
    \E i \in RecordIndexes :
        /\ result.records[i].addressStreet = Str(<<>>)
        /\ result.records[i].addressCity = Str(<<"B">>)
        /\ result.records[i].addressState = Str(<<"a">>)
        /\ result.records[i].address = Str(<<"B", ",", " ", "a">>)

RECURSIVE FirstNonNull(_)
FirstNonNull(vals) ==
    IF vals = <<>> THEN Null
    ELSE IF NonNull(Head(vals)) THEN Head(vals)
    ELSE FirstNonNull(Tail(vals))
CandidateVals(raw, fld) ==
    [j \in 1..Len(Candidates[fld]) |-> LeafVal(raw, Candidates[fld][j])]

\* C8: each coalesced field holds the first non-null candidate, in precedence
\* order, so that a present 0, false or empty string wins over a later source.
C8_FirstNonNullWins ==
    \A i \in RecordIndexes :
        \A fld \in CoalescedFields \ {"zpid", "isFeaturedListing"} :
            result.records[i][fld] = FirstNonNull(CandidateVals(RawsOf(html)[i], fld))

AllAbsent(raw, fld) ==
    \A j \in 1..Len(Candidates[fld]) : LeafVal(raw, Candidates[fld][j]).t = "absent"
NoAddressSource(raw) ==
    \A fld \in {"addressStreet", "addressCity", "addressState", "addressZipcode"} :
        AllAbsent(raw, fld)
NoPhotoSource(raw) == PhotoSources(raw) = <<>> /\ raw.f["imgSrc"].t = "absent"

\* the fields C9 and its amendment agree on
AbsentIsNull(raw, rec) ==
    /\ \A fld \in CoalescedFields \ {"zpid", "isFeaturedListing"} :
          AllAbsent(raw, fld) => rec[fld] = Null
    /\ NoAddressSource(raw) => rec.address = Null
    /\ NoPhotoSource(raw) => rec.photoUrls = PyList(<<>>)
    /\ AllAbsent(raw, "isFeaturedListing") => rec.isFeaturedListing = PyFalse

\* C9 as stated: a field none of whose sources is present is null (photoUrls the
\* empty list, isFeaturedListing false); in particular zpid is null.
C9_AbsentIsNull ==
    \A i \in RecordIndexes :
        /\ AbsentIsNull(RawsOf(html)[i], result.records[i])
        /\ AllAbsent(RawsOf(html)[i], "zpid") => result.records[i].zpid = Null

\* C9 amended: a field none of whose sources is present is null, except
\* photoUrls (the empty list), isFeaturedListing (false) and zpid (the empty
\* string).
C9_AbsentIsNullButZpid ==
    \A i \in RecordIndexes :
        /\ AbsentIsNull(RawsOf(html)[i], result.records[i])
        /\ AllAbsent(RawsOf(html)[i], "zpid") => result.records[i].zpid = Str(<<>>)

\* the record of the raw listing {}
C9_Witness ==
    \E i \in RecordIndexes :
        /\ RawsOf(html)[i] = EmptyRaw
        /\ result.records[i].zpid = Str(<<>>)
        /\ result.records[i].latitude = Null
        /\ result.records[i].photoUrls.items = <<>>

\* ------------------------------------------------ claims on the orchestrator
\* the sweep of a configuration: city, then listing type, then page
QueryCount(c) ==
    IF c.maxPages < 1 THEN 0 ELSE Len(c.cities) * Len(c.listingTypes) * c.maxPages
SweepOrder(c) ==
    [n \in 1..QueryCount(c) |->
        <<((n - 1) \div (Len(c.listingTypes) * c.maxPages)) + 1,
          (((n - 1) \div c.maxPages) % Len(c.listingTypes)) + 1,
          ((n - 1) % c.maxPages) + 1>>]
IsPrefix(a, b) == Len(a) <= Len(b) /\ SubSeq(b, 1, Len(a)) = a

\* C1: a failed query, network or extraction, does not abort the batch: when
\* main() has ended, every query of the sweep was attempted, and the aggregate
\* holds the records of all successful queries.
C1_FailureIsolated ==
    /\ Len(all_records) = keptCount
    /\ (pc = "done" /\ ~direct) => fetchLog = SweepOrder(config)

\* C2: when the sweep ends with an empty aggregate, no exporter is called, no
\* file is written and the exit code is 0, whatever the output format.
C2_NoExportWhenEmpty ==
    (pc = "done" /\ ~direct /\ all_records = <<>>
        /\ (sweepDone \/ (config.loadable /\ config.cities = <<>>))) =>
            /\ exporterCalls = 0
            /\ ~outFile.written
            /\ exitCode = 0

\* a sweep of four queries, one of them failed, that collected nothing
C2_Witness ==
    /\ pc = "done" /\ sweepDone /\ all_records = <<>>
    /\ Len(fetchLog) = 4 /\ Len(failedLog) = 1
    /\ config.format = "csv" /\ exitCode = 0

\* C3: the requests are sent one at a time in the order city, listing type,
\* page; each query of the sweep is sent once and never again, and a request
\* starts only when no other is outstanding.
C3_SequentialSweep ==
    /\ IsPrefix(fetchLog, SweepOrder(config))
    /\ Cardinality(inflight) <= 1
    /\ inflight # {} => (pc = "fetching" /\ inflight = {fetchLog[Len(fetchLog)]})
    /\ sweepDone => fetchLog = SweepOrder(config)

\* a full sweep of two cities and two pages in which two requests failed
C3_Witness ==
    /\ sweepDone /\ Len(config.cities) = 2 /\ config.maxPages = 2
    /\ fetchLog = <<<<1, 1, 1>>, <<1, 1, 2>>, <<2, 1, 1>>, <<2, 1, 2>>>>
    /\ failedLog = <<<<1, 1, 2>>, <<2, 1, 1>>>>

JsonWritten == outFile.written /\ outFile.format = "json"
CountMatches ==
    /\ "recordCount" \in outFile.metadata.keys
    /\ outFile.metadata.recordCount = Len(outFile.results)

\* C10 as stated: every JSON file export_records writes holds a metadata object
\* whose recordCount is the length of results.
C10_RecordCountMatches == JsonWritten => CountMatches

\* C10 amended: every JSON file written by run() holds a metadata object whose
\* recordCount is the length of results, which is the number of records kept,
\* after home-type filtering, over all successful queries.
C10_RunRecordCount ==
    (JsonWritten /\ ~direct) =>
        /\ CountMatches
        /\ outFile.results = all_records
        /\ outFile.metadata.recordCount = keptCount

\* run() exported three records, one of a page filtered out, after a failure
C10_Witness ==
    /\ JsonWritten /\ ~direct
    /\ outFile.metadata.recordCount = 3
    /\ config.homeTypes = <<>>
    /\ failedLog # <<>>

\* the aggregated records that carry both coordinates, as (lat, lon) pairs
HasCoords(rec) == ~IsNone(rec.latitude) /\ ~IsNone(rec.longitude)
CoordPairs(records) ==
    [i \in 1..Len(SelectSeq(records, HasCoords)) |->
        <<SelectSeq(records, HasCoords)[i].latitude,
          SelectSeq(records, HasCoords)[i].longitude>>]

\* C15: run() calls compute_centroid at most once, only after the full sweep,
\* only with a non-empty list, which holds exactly the pairs of the aggregated
\* records whose latitude and longitude are both non-null; when no record
\* carries coordinates the call is skipped and the exporter is still called.
C15_CentroidGuard ==
    /\ Len(centroidLog) <= 1
    /\ centroidLog # <<>> =>
          /\ sweepDone
          /\ centroidLog[1] # <<>>
          /\ centroidLog[1] = CoordPairs(all_records)
    /\ (sweepDone /\ all_records # <<>> /\ CoordPairs(all_records) = <<>>) =>
          /\ centroidLog = <<>>
          /\ exporterCalls = 1

\* a run whose aggregate mixes records with and without coordinates: the
\* centroid is computed from the former only, and the file is written
C15_Witness ==
    /\ centroidLog # <<>>
    /\ Len(centroidLog[1]) < Len(all_records)
    /\ outFile.written

\* the formats the specification names
KnownFormats == {"json", "csv", "xml", "rss", "html"}
UnknownFormatRun ==
    pc = "done" /\ ~direct /\ config.loadable /\ OutputFormat(config) \notin KnownFormats

\* C11 as stated: every run whose effective format is unknown ends with exit
\* code 1 and writes no output file.
C11_UnknownFormatFatal == UnknownFormatRun => (exitCode = 1 /\ ~outFile.written)

\* C11 amended: a run whose effective format is unknown never writes an output
\* file; with at least one record collected it ends with exit code 1, the
\* exporter having been called unless the centroid step failed first; with an
\* empty aggregate the format is never looked at and the exit code is 0.
C11_FatalAtExport ==
    UnknownFormatRun =>
        /\ ~outFile.written
        /\ all_records # <<>> => exitCode = 1
        /\ (sweepDone /\ all_records # <<>>) =>
              (exporterCalls = 1 \/ CentroidRaises(all_records))
        /\ (all_records = <<>> /\ (sweepDone \/ config.cities = <<>>)) =>
              (exitCode = 0 /\ exporterCalls = 0)

\* a completed sweep with records and the format yaml: the exporter was
\* called, raised, and the process exit code is 1
C11_Witness ==
    /\ UnknownFormatRun /\ sweepDone
    /\ config.format = "yaml"
    /\ Len(all_records) = 2
    /\ exporterCalls = 1 /\ exitCode = 1 /\ ~outFile.written

\* ---------------------------------------------- claims on the home-type filter
Parsed == ParseSearchResults(html).records
AnyTypeIn(home_types, descriptor) ==
    \E i \in 1..Len(home_types) : IsSubstring(Lower(home_types[i]), Lower(descriptor))
\* the descriptor of a record: its text, the empty string for null
DescriptorOrEmpty(rec) == IF IsNone(rec.unitTypes) THEN <<>> ELSE rec.unitTypes.s
\* the descriptor as the code takes it: the empty string for every falsy value
TruthyDescriptor(rec) == IF Truthy(rec.unitTypes) THEN rec.unitTypes.s ELSE <<>>

\* C12 as stated: with a non-empty homeTypes a parsed record is kept iff a
\* configured type, lower-cased, is a substring of the lower-cased descriptor,
\* only a null descriptor counting as the empty string; order is kept; with an
\* empty homeTypes every parsed record is kept.
C12_KeptIffSubstring ==
    called =>
        LET Keep(rec) == AnyTypeIn(config.homeTypes, DescriptorOrEmpty(rec))
        IN  result.records =
                IF config.homeTypes = <<>> THEN Parsed ELSE SelectSeq(Parsed, Keep)

\* C12 amended: as stated, but every falsy descriptor (null, 0, false, the
\* empty string) counts as the empty string, and a non-string descriptor is
\* matched through its str() text.
C12_KeptIffSubstringOfTruthy ==
    called =>
        LET Keep(rec) == AnyTypeIn(config.homeTypes, TruthyDescriptor(rec))
        IN  result.records =
                IF config.homeTypes = <<>> THEN Parsed ELSE SelectSeq(Parsed, Keep)

\* homeTypes ["AB"] over the descriptors "b" and "aB": the second record alone
\* is kept
C12_Witness ==
    /\ called
    /\ config.homeTypes = <<<<"A", "B">>>>
    /\ Len(Parsed) = 2
    /\ Parsed[1].unitTypes = Str(<<"b">>)
    /\ result.records = <<Parsed[2]>>

\* ------------------------------------------------ claims on the CSV exporter
\* the position of the first record, then of the first key in it, that holds key
FirstRecordWith(key) == CHOOSE i \in 1..Len(csvRecords) :
    HasKey(csvRecords[i], key) /\ \A k \in 1..(i - 1) : ~HasKey(csvRecords[k], key)
PositionIn(rec, key) == CHOOSE i \in 1..Len(rec) : rec[i][1] = key
SeenBefore(k1, k2) ==
    \/ FirstRecordWith(k1) < FirstRecordWith(k2)
    \/ /\ FirstRecordWith(k1) = FirstRecordWith(k2)
       /\ PositionIn(csvRecords[FirstRecordWith(k1)], k1)
            < PositionIn(csvRecords[FirstRecordWith(k1)], k2)

HeaderIsUnion ==
    /\ {csvFile.header[j] : j \in 1..Len(csvFile.header)}
          = UNION {{csvRecords[i][k][1] : k \in 1..Len(csvRecords[i])} : i \in 1..Len(csvRecords)}
    /\ \A i, j \in 1..Len(csvFile.header) :
          i < j => (csvFile.header[i] # csvFile.header[j]
                    /\ SeenBefore(csvFile.header[i], csvFile.header[j]))

CellIsFlat(rec, key, cell) ==
    IF ~HasKey(rec, key) THEN cell = <<>>
    ELSE IF IsListValue(ValueOf(rec, key))
    THEN cell = Join([n \in 1..Len(ValueOf(rec, key).items) |->
                        IF ValueOf(rec, key).items[n] = Null THEN <<>>
                        ELSE ValueOf(rec, key).items[n].s], <<"|">>)
    ELSE IF ValueOf(rec, key) = Null THEN cell = <<>>
    ELSE cell = ValueOf(rec, key).s

\* C13: the header of the CSV file is the union of the keys of all records in
\* first-seen order; in every row a list is its elements joined with "|", null
\* is the empty string and a key the record lacks is an empty cell; zero
\* records give a written file that is empty, with no header.
C13_CsvLayout ==
    csvFile.written =>
        IF csvRecords = <<>>
        THEN ~csvFile.hasHeader /\ csvFile.header = <<>> /\ csvFile.rows = <<>>
        ELSE /\ csvFile.hasHeader
             /\ HeaderIsUnion
             /\ Len(csvFile.rows) = Len(csvRecords)
             /\ \A i \in 1..Len(csvRecords) :
                   /\ Len(csvFile.rows[i]) = Len(csvFile.header)
                   /\ \A j \in 1..Len(csvFile.header) :
                         CellIsFlat(csvRecords[i], csvFile.header[j], csvFile.rows[i][j])

\* [{"b": ["x","y"], "a": "1"}, {"a": null}]: header b,a and rows x|y,1 and ,
C13_Witness ==
    /\ csvFile.written
    /\ csvRecords = <<<<<<"b", ListOf(<<Str(<<"x">>), Str(<<"y">>)>>)>>, <<"a", Str(<<"1">>)>>>>,
                      <<<<"a", Null>>>>>>
    /\ csvFile.header = <<"b", "a">>
    /\ csvFile.rows = <<<<<<"x", "|", "y">>, <<"1">>>>, <<<<>>, <<>>>>>>

\* ------------------------------------------------- claims on the brace scan
RECURSIVE CloseFrom(_, _, _, _)
\* where the top-level object of a text closes, braces inside quoted strings
\* not counted; 0 when it does not close
CloseFrom(text, i, depth, inString) ==
    IF i > Len(text) THEN 0
    ELSE IF text[i] = "q" THEN CloseFrom(text, i + 1, depth, ~inString)
    ELSE IF inString THEN CloseFrom(text, i + 1, depth, inString)
    ELSE IF text[i] = "{" THEN CloseFrom(text, i + 1, depth + 1, inString)
    ELSE IF text[i] = "}"
    THEN IF depth = 1 THEN i ELSE CloseFrom(text, i + 1, depth - 1, inString)
    ELSE CloseFrom(text, i + 1, depth, inString)
TopLevelClose(text) == CloseFrom(text, 1, 0, FALSE)

\* C14: the scan stops where the top-level object closes, braces inside JSON
\* string values included, and exactly the text up to there is parsed.
C14_StopsAtTopLevelClose ==
    (scanned.done /\ TopLevelClose(candidate) > 0) =>
        /\ scanned.end_index = TopLevelClose(candidate)
        /\ scanned.parsed = SubSeq(candidate, 1, TopLevelClose(candidate))

====
